---- MODULE Spec2Model ----
(***************************************************************************)
(* Model of src/main.py: SofaScorePenaltyScraper and main().               *)
(*                                                                         *)
(* The program is sequential.  main() calls collect_team_penalties, which  *)
(* calls get_team_matches once and get_match_incidents once per match of   *)
(* the returned list; both go through _make_request, whose every attempt   *)
(* either succeeds (the provider's JSON is drawn here) or fails.  The      *)
(* steps of the model are cut at these attempts.                           *)
(*                                                                         *)
(* Python None (an absent JSON key read with .get) is the string "None"    *)
(* for text fields and the empty tuple for numeric fields.                 *)
(***************************************************************************)
EXTENDS Integers, Sequences, FiniteSets

VARIABLES
    pc,               \* position of main(): main, team_req, loop, inc_req,
                      \* collected, done, raised; classify/classified
    team_fetches,     \* team ids whose event history was requested, in order
    incident_fetches, \* match ids whose incident feed was requested, in order
    attempt,          \* _make_request: loop variable of the current call
    req_attempts,     \* requests.get calls made by the current call
    sleeps,           \* time.sleep durations of the current call, in order
    fetch_state,      \* current call: idle, pending, returned, raised
    events,           \* get_team_matches: response.get('events', [])
    matches,          \* collect_team_penalties: the filtered match list
    idx,              \* matches[1..idx] have entered the for loop
    match_info,       \* get_match_incidents: the match being classified
    response,         \* get_match_incidents: JSON of the incident feed
    penalties,        \* get_match_incidents: the returned list
    all_penalties,    \* collect_team_penalties: accumulated records
    team_penalties,   \* collect_team_penalties: the returned frame's rows
    exported,         \* penalty files written by main()
    error             \* an exception left _make_request and main()

vars == <<pc, team_fetches, incident_fetches, attempt, req_attempts, sleeps,
          fetch_state, events, matches, idx, match_info, response, penalties,
          all_penalties, team_penalties, exported, error>>

----------------------------------------------------------------------------
(* Bounds of the provider's data. *)
MaxEvents == 2
MaxFeed == 2

(* Program constants. *)
tournament_id == 52
max_retries == 3
team_id == 3061
team_name == "Galatasaray"

----------------------------------------------------------------------------
(* Provider data. *)

Galatasaray == [id |-> 3061, name |-> "Galatasaray"]
Fenerbahce == [id |-> 3052, name |-> "Fenerbahce"]
Besiktas == [id |-> 3050, name |-> "Besiktas"]

Pairings == {<<Galatasaray, Fenerbahce>>, <<Fenerbahce, Besiktas>>}

Events ==
    { [id |-> i, tournament |-> t, status |-> s,
       homeTeam |-> p[1], awayTeam |-> p[2]] :
        i \in {1, 2}, t \in {tournament_id, 17},
        s \in {"finished", "inprogress"}, p \in Pairings }

SeqsUpTo(S, n) == UNION { [1..k -> S] : k \in 0..n }

TeamResponses ==
    {[present |-> FALSE, events |-> <<>>]} \cup
    { [present |-> TRUE, events |-> h] : h \in SeqsUpTo(Events, MaxEvents) }

Incidents ==
    { [incidentType |-> t, incidentClass |-> c, from |-> f, isHome |-> h,
       homeScore |-> s[1], awayScore |-> s[2]] :
        t \in {"goal", "varDecision", "inGamePenalty"},
        c \in {"penalty", "penaltyNotAwarded", "regular"},
        f \in {"penalty", "None"},
        h \in BOOLEAN,
        s \in {<<<<>>, <<>>>>, <<<<1>>, <<0>>>>} }

IncidentResponses ==
    {[present |-> FALSE, incidents |-> <<>>]} \cup
    { [present |-> TRUE, incidents |-> f] : f \in SeqsUpTo(Incidents, MaxFeed) }

Incident(t, c, f, h) ==
    [incidentType |-> t, incidentClass |-> c, from |-> f, isHome |-> h,
     homeScore |-> <<>>, awayScore |-> <<>>]

(* The feeds the provider serves during a run of main(). *)
RunResponses ==
    { [present |-> FALSE, incidents |-> <<>>],
      [present |-> TRUE,
       incidents |-> <<Incident("goal", "regular", "penalty", TRUE)>>],
      [present |-> TRUE,
       incidents |-> <<Incident("varDecision", "penaltyNotAwarded", "None", FALSE),
                       Incident("goal", "penalty", "None", TRUE)>>] }

NoResponse == [present |-> FALSE, incidents |-> <<>>]
NoMatch == [id |-> 0, tournament |-> 0, status |-> "None",
            homeTeam |-> Galatasaray, awayTeam |-> Galatasaray]
ClassifiedMatch == [id |-> 1, tournament |-> tournament_id, status |-> "finished",
                    homeTeam |-> Galatasaray, awayTeam |-> Fenerbahce]

----------------------------------------------------------------------------
(* _make_request *)

(* Off by one: the last attempt is never recognised. *)
IsLastAttemptOffByOne(a) == a = max_retries

IsLastAttempt(a) == a = max_retries - 1

Backoff(a) == 2 ^ a

(* The error of an incident request is swallowed and the loop goes on. *)
RaiseTargetSwallowed(p) == IF p = "inc_req" THEN "loop" ELSE "raised"

(* Where control goes when _make_request raises: nothing between the call  *)
(* and main() catches it, and main() re-raises.                            *)
RaiseTarget(p) == "raised"

BeginRequest ==
    /\ attempt' = 0
    /\ req_attempts' = 0
    /\ sleeps' = <<>>
    /\ fetch_state' = "pending"

InRequest ==
    /\ pc \in {"team_req", "inc_req"}
    /\ fetch_state = "pending"
    /\ attempt < max_retries

AttemptFails ==
    /\ InRequest
    /\ req_attempts' = req_attempts + 1
    /\ IF IsLastAttempt(attempt)
       THEN /\ fetch_state' = "raised"
            /\ error' = TRUE
            /\ pc' = RaiseTarget(pc)
            /\ UNCHANGED <<attempt, sleeps>>
       ELSE /\ sleeps' = Append(sleeps, Backoff(attempt))
            /\ attempt' = attempt + 1
            /\ UNCHANGED <<fetch_state, error, pc>>
    /\ UNCHANGED <<team_fetches, incident_fetches, events, matches, idx,
                   match_info, response, penalties, all_penalties,
                   team_penalties, exported>>

----------------------------------------------------------------------------
(* get_team_matches *)

GetEvents(resp) == IF resp.present THEN resp.events ELSE <<>>

(* The competition filter is left out. *)
SuperLigMatchesUnfiltered(ms) == ms

RECURSIVE SuperLigMatches(_)
SuperLigMatches(ms) ==
    IF ms = <<>> THEN <<>>
    ELSE IF Head(ms).tournament = tournament_id
         THEN <<Head(ms)>> \o SuperLigMatches(Tail(ms))
         ELSE SuperLigMatches(Tail(ms))

----------------------------------------------------------------------------
(* get_match_incidents *)

GetIncidents(resp) == IF resp.present THEN resp.incidents ELSE <<>>

GetScore(field) == IF field = <<>> THEN 0 ELSE field[1]

(* The three tests as independent alternatives instead of an if/elif chain. *)
IsPenaltyAnyRule(incident) ==
    \/ incident.incidentType = "goal" /\ incident.from = "penalty"
    \/ incident.incidentType = "varDecision"
          /\ incident.incidentClass = "penaltyNotAwarded"
    \/ incident.incidentClass = "penalty"

IsPenalty(incident) ==
    IF incident.incidentType = "goal"
    THEN incident.from = "penalty"
    ELSE IF incident.incidentType = "varDecision"
         THEN incident.incidentClass = "penaltyNotAwarded"
         ELSE IF incident.incidentClass = "penalty" THEN TRUE ELSE FALSE

(* The outcome read from the origin field instead of the type tag. *)
ResultByFrom(incident) ==
    IF incident.from = "penalty" THEN "scored" ELSE "not awarded/missed"

Result(incident) ==
    IF incident.incidentType = "goal" THEN "scored" ELSE "not awarded/missed"

(* The record of lines 79-96.  timestamp, match_date, round, match_minute,  *)
(* taker_name and reason are copied from the input without a decision and  *)
(* are left out; score_at_time "h-a" is the pair <<h, a>>.                  *)
PenaltyData(event_id, info, incident) ==
    [match_id |-> event_id,
     home_team |-> info.homeTeam.name,
     away_team |-> info.awayTeam.name,
     taker_team |-> IF incident.isHome THEN info.homeTeam.name
                    ELSE info.awayTeam.name,
     incident_type |-> incident.incidentType,
     incident_class |-> incident.incidentClass,
     from |-> incident.from,
     result |-> Result(incident),
     score_at_time |-> <<GetScore(incident.homeScore), GetScore(incident.awayScore)>>,
     raw_incident |-> incident]

(* Records are prepended, so the output is in reverse feed order. *)
RECURSIVE ExtractPenaltiesReversed(_, _, _)
ExtractPenaltiesReversed(event_id, info, incidents) ==
    IF incidents = <<>> THEN <<>>
    ELSE IF IsPenalty(Head(incidents))
         THEN ExtractPenaltiesReversed(event_id, info, Tail(incidents))
              \o <<PenaltyData(event_id, info, Head(incidents))>>
         ELSE ExtractPenaltiesReversed(event_id, info, Tail(incidents))

RECURSIVE ExtractPenalties(_, _, _)
ExtractPenalties(event_id, info, incidents) ==
    IF incidents = <<>> THEN <<>>
    ELSE IF IsPenalty(Head(incidents))
         THEN <<PenaltyData(event_id, info, Head(incidents))>>
              \o ExtractPenalties(event_id, info, Tail(incidents))
         ELSE ExtractPenalties(event_id, info, Tail(incidents))

----------------------------------------------------------------------------
(* collect_team_penalties *)

(* The loop is left after its first match. *)
LoopDoneEarly(i, ms) == i >= 1 \/ ms = <<>>

LoopDone(i, ms) == i = Len(ms)

(* The frame is filtered on the taker's team instead of the two participants. *)
KeepRowByTaker(r, name) == r.taker_team = name

KeepRow(r, name) == r.home_team = name \/ r.away_team = name

AddColumns(r, name) ==
    [match_id |-> r.match_id, home_team |-> r.home_team,
     away_team |-> r.away_team, taker_team |-> r.taker_team,
     incident_type |-> r.incident_type, incident_class |-> r.incident_class,
     from |-> r.from, result |-> r.result, score_at_time |-> r.score_at_time,
     raw_incident |-> r.raw_incident,
     is_for_team |-> (r.taker_team = name),
     opposition |-> IF r.home_team = name THEN r.away_team ELSE r.home_team]

RECURSIVE TeamRows(_, _)
TeamRows(rows, name) ==
    IF rows = <<>> THEN <<>>
    ELSE IF KeepRow(Head(rows), name)
         THEN <<AddColumns(Head(rows), name)>> \o TeamRows(Tail(rows), name)
         ELSE TeamRows(Tail(rows), name)

----------------------------------------------------------------------------
(* The run of main(). *)

Init ==
    /\ pc = "main"
    /\ team_fetches = <<>>
    /\ incident_fetches = <<>>
    /\ attempt = 0
    /\ req_attempts = 0
    /\ sleeps = <<>>
    /\ fetch_state = "idle"
    /\ events = <<>>
    /\ matches = <<>>
    /\ idx = 0
    /\ match_info = NoMatch
    /\ response = NoResponse
    /\ penalties = <<>>
    /\ all_penalties = <<>>
    /\ team_penalties = <<>>
    /\ exported = {}
    /\ error = FALSE

(* main() -> collect_team_penalties -> get_team_matches -> _make_request *)
StartCollect ==
    /\ pc = "main"
    /\ pc' = "team_req"
    /\ team_fetches' = Append(team_fetches, team_id)
    /\ BeginRequest
    /\ UNCHANGED <<incident_fetches, events, matches, idx, match_info, response,
                   penalties, all_penalties, team_penalties, exported, error>>

(* The event-history request succeeds; get_team_matches filters and returns. *)
TeamResponds ==
    /\ pc = "team_req"
    /\ InRequest
    /\ \E resp \in TeamResponses :
          /\ events' = GetEvents(resp)
          /\ matches' = SuperLigMatches(GetEvents(resp))
    /\ req_attempts' = req_attempts + 1
    /\ fetch_state' = "returned"
    /\ idx' = 0
    /\ pc' = "loop"
    /\ UNCHANGED <<team_fetches, incident_fetches, attempt, sleeps, match_info,
                   response, penalties, all_penalties, team_penalties, exported,
                   error>>

(* The for loop takes its next match and get_match_incidents requests its feed. *)
NextMatch ==
    /\ pc = "loop"
    /\ ~LoopDone(idx, matches)
    /\ idx < Len(matches)
    /\ idx' = idx + 1
    /\ match_info' = matches[idx + 1]
    /\ incident_fetches' = Append(incident_fetches, matches[idx + 1].id)
    /\ pc' = "inc_req"
    /\ BeginRequest
    /\ UNCHANGED <<team_fetches, events, matches, response, penalties,
                   all_penalties, team_penalties, exported, error>>

(* The incident request succeeds; the feed is classified and appended. *)
IncidentsRespond ==
    /\ pc = "inc_req"
    /\ InRequest
    /\ \E resp \in RunResponses :
          LET found == ExtractPenalties(match_info.id, match_info, GetIncidents(resp))
          IN /\ response' = resp
             /\ penalties' = found
             /\ all_penalties' = all_penalties \o found
    /\ req_attempts' = req_attempts + 1
    /\ fetch_state' = "returned"
    /\ pc' = "loop"
    /\ UNCHANGED <<team_fetches, incident_fetches, attempt, sleeps, events,
                   matches, idx, match_info, team_penalties, exported, error>>

(* The loop is over: the frame is filtered by team name and returned. *)
CollectReturns ==
    /\ pc = "loop"
    /\ LoopDone(idx, matches)
    /\ team_penalties' = TeamRows(all_penalties, team_name)
    /\ pc' = "collected"
    /\ UNCHANGED <<team_fetches, incident_fetches, attempt, req_attempts, sleeps,
                   fetch_state, events, matches, idx, match_info, response,
                   penalties, all_penalties, exported, error>>

(* main() writes the CSV and the JSON file unless the frame is empty; the   *)
(* variable records which files exist, not their (timestamp-sorted) rows.  *)
MainExports ==
    /\ pc = "collected"
    /\ exported' = IF team_penalties = <<>> THEN {} ELSE {"csv", "json"}
    /\ pc' = "done"
    /\ UNCHANGED <<team_fetches, incident_fetches, attempt, req_attempts, sleeps,
                   fetch_state, events, matches, idx, match_info, response,
                   penalties, all_penalties, team_penalties, error>>

Next ==
    \/ StartCollect
    \/ AttemptFails
    \/ TeamResponds
    \/ NextMatch
    \/ IncidentsRespond
    \/ CollectReturns
    \/ MainExports

Spec == Init /\ [][Next]_vars

----------------------------------------------------------------------------
(* get_match_incidents on its own: one feed of a fixed match is classified. *)

InitClassify ==
    /\ pc = "classify"
    /\ team_fetches = <<>>
    /\ incident_fetches = <<>>
    /\ attempt = 0
    /\ req_attempts = 0
    /\ sleeps = <<>>
    /\ fetch_state = "returned"
    /\ events = <<>>
    /\ matches = <<>>
    /\ idx = 0
    /\ match_info = ClassifiedMatch
    /\ response \in IncidentResponses
    /\ penalties = <<>>
    /\ all_penalties = <<>>
    /\ team_penalties = <<>>
    /\ exported = {}
    /\ error = FALSE

Classify ==
    /\ pc = "classify"
    /\ penalties' = ExtractPenalties(match_info.id, match_info, GetIncidents(response))
    /\ pc' = "classified"
    /\ UNCHANGED <<team_fetches, incident_fetches, attempt, req_attempts, sleeps,
                   fetch_state, events, matches, idx, match_info, response,
                   all_penalties, team_penalties, exported, error>>

NextClassify == Classify

SpecClassify == InitClassify /\ [][NextClassify]_vars

----------------------------------------------------------------------------
(* Helpers of the properties. *)

Range(s) == { s[i] : i \in DOMAIN s }

Occurrences(s, x) == Cardinality({ i \in DOMAIN s : s[i] = x })

(* Position of index i within the ascending index set I. *)
Rank(I, i) == Cardinality({ j \in I : j <= i })

Feed == GetIncidents(response)

Returned == pc \in {"collected", "done"}

(* The three rules as the claim words them. *)
ThreeWayRule(inc) ==
    \/ inc.incidentType = "goal" /\ inc.from = "penalty"
    \/ /\ inc.incidentType # "goal"
       /\ inc.incidentType = "varDecision"
       /\ inc.incidentClass = "penaltyNotAwarded"
    \/ /\ inc.incidentType # "goal"
       /\ inc.incidentType # "varDecision"
       /\ inc.incidentClass = "penalty"

HasRecord(inc) == \E k \in DOMAIN penalties : penalties[k].raw_incident = inc

----------------------------------------------------------------------------
KeepRowSpec(r) == r.home_team = team_name \/ r.away_team = team_name

(* C1: within one run no team's match history is requested more than once  *)
(* and no match's incident feed is requested more than once, whatever      *)
(* history the provider returns.                                           *)
C1_NoRefetch ==
    /\ \A t \in Range(team_fetches) : Occurrences(team_fetches, t) <= 1
    /\ \A m \in Range(incident_fetches) : Occurrences(incident_fetches, m) <= 1

(* C2: an incident produces a penalty record iff it passes the three-way   *)
(* first-match-wins rule: goal with from = penalty; else varDecision with  *)
(* class penaltyNotAwarded; else class penalty.                            *)
C2_ThreeWayRule ==
    pc \in {"classified", "loop"} =>
        /\ \A i \in DOMAIN Feed : HasRecord(Feed[i]) <=> ThreeWayRule(Feed[i])
        /\ \A k \in DOMAIN penalties : ThreeWayRule(penalties[k].raw_incident)

C2_Witness ==
    /\ pc = "classified"
    /\ \E i \in DOMAIN Feed :
          /\ Feed[i].incidentType = "goal"
          /\ Feed[i].incidentClass = "penalty"
          /\ Feed[i].from # "penalty"
          /\ ~HasRecord(Feed[i])
    /\ \E i \in DOMAIN Feed : HasRecord(Feed[i])

(* C3: a record's outcome is scored iff the incident's type tag is goal,   *)
(* and otherwise the not-awarded-or-missed value; every varDecision /      *)
(* penaltyNotAwarded incident and every non-goal incident of class penalty *)
(* gets that value, whatever its score fields.                             *)
C3_Outcome ==
    pc \in {"classified", "loop"} =>
        /\ \A k \in DOMAIN penalties :
              /\ penalties[k].result = "scored"
                    <=> penalties[k].raw_incident.incidentType = "goal"
              /\ penalties[k].raw_incident.incidentType # "goal"
                    => penalties[k].result = "not awarded/missed"
        /\ \A i \in DOMAIN Feed :
              (\/ Feed[i].incidentType = "varDecision"
                    /\ Feed[i].incidentClass = "penaltyNotAwarded"
               \/ Feed[i].incidentType \notin {"goal", "varDecision"}
                    /\ Feed[i].incidentClass = "penalty")
              => \E k \in DOMAIN penalties :
                    /\ penalties[k].raw_incident = Feed[i]
                    /\ penalties[k].result = "not awarded/missed"

C3_Witness ==
    /\ pc = "classified"
    /\ \E k \in DOMAIN penalties :
          /\ penalties[k].incident_type = "varDecision"
          /\ penalties[k].from = "penalty"
          /\ penalties[k].score_at_time = <<1, 0>>
          /\ penalties[k].result = "not awarded/missed"
    /\ \E k \in DOMAIN penalties : penalties[k].result = "scored"

(* C4: the incident feed of a match whose status is not finished is never  *)
(* requested.                                                              *)
C4_OnlyFinishedFetched ==
    \A i \in 1..idx : matches[i].status = "finished"

(* A call that has ended makes no further attempt and no further sleep    *)
(* until the next call begins.                                             *)
CallEnded ==
    fetch_state \in {"returned", "raised"}
        => \/ req_attempts' = req_attempts /\ sleeps' = sleeps
           \/ fetch_state' = "pending" /\ req_attempts' = 0

(* C5: one call of _make_request makes at most max_retries attempts, ends  *)
(* at its first success, and sleeps 2^attempt exactly once after every     *)
(* failed attempt but the last: k failures then a success are k+1 attempts *)
(* and k sleeps; max_retries failures raise after max_retries attempts and *)
(* max_retries - 1 sleeps.                                                 *)
C5_RetryDiscipline ==
    /\ [](/\ req_attempts <= max_retries
          /\ Len(sleeps) <= max_retries - 1
          /\ \A i \in DOMAIN sleeps : sleeps[i] = 2 ^ (i - 1)
          /\ fetch_state = "pending" => Len(sleeps) = req_attempts
          /\ fetch_state = "returned" => Len(sleeps) = req_attempts - 1
          /\ fetch_state = "raised"
                => req_attempts = max_retries /\ Len(sleeps) = max_retries - 1
          /\ req_attempts = max_retries => fetch_state \in {"returned", "raised"})
    /\ [][CallEnded]_vars

C5_Witness ==
    /\ pc = "loop"
    /\ fetch_state = "returned"
    /\ req_attempts = 3
    /\ sleeps = <<1, 2>>

NothingAfterError ==
    error => /\ team_fetches' = team_fetches
             /\ incident_fetches' = incident_fetches
             /\ req_attempts' = req_attempts
             /\ exported' = exported

(* C6: once a request has exhausted its retries the run is over: main()    *)
(* has re-raised, no team or match request follows, nothing is returned    *)
(* from the records collected so far and no penalty file is written.       *)
C6_FatalError ==
    /\ [](fetch_state = "raised" => error)
    /\ [](error => pc = "raised" /\ exported = {} /\ team_penalties = <<>>)
    /\ [][NothingAfterError]_vars

C6_Witness ==
    /\ error
    /\ pc = "raised"
    /\ Len(incident_fetches) = 2
    /\ \E i \in DOMAIN all_penalties : KeepRowSpec(all_penalties[i])

C8_CompetitionFilter ==
    LET kept == { i \in DOMAIN events : events[i].tournament = tournament_id }
    IN /\ Len(matches) = Cardinality(kept)
       /\ \A i \in kept : matches[Rank(kept, i)] = events[i]
       /\ matches = <<>> => incident_fetches = <<>>

C8_Witness ==
    /\ pc = "done"
    /\ Len(events) = 2
    /\ events[1].tournament # tournament_id
    /\ matches = <<events[2]>>
    /\ incident_fetches = <<events[2].id>>

(* C9: get_match_incidents returns one record per incident classified as a *)
(* penalty, in feed order; an empty or missing feed gives the empty list.  *)
C9_FeedOrder ==
    pc \in {"classified", "loop"} =>
        LET pens == { i \in DOMAIN Feed : IsPenalty(Feed[i]) }
        IN /\ Len(penalties) = Cardinality(pens)
           /\ \A i \in pens : penalties[Rank(pens, i)].raw_incident = Feed[i]
           /\ (~response.present \/ response.incidents = <<>>) => penalties = <<>>

C9_Witness ==
    /\ pc = "classified"
    /\ Len(Feed) = 2
    /\ Len(penalties) = 2
    /\ penalties[1].raw_incident = Feed[1]
    /\ penalties[1] # penalties[2]

(* C10: the rows collect_team_penalties returns are exactly the collected  *)
(* records whose home or away team name is team_name, in order; a record   *)
(* of a match with two other names is dropped.                             *)
C10_TeamNameFilter ==
    /\ \A k \in DOMAIN team_penalties : KeepRowSpec(team_penalties[k])
    /\ Returned =>
          LET kept == { i \in DOMAIN all_penalties : KeepRowSpec(all_penalties[i]) }
          IN /\ Len(team_penalties) = Cardinality(kept)
             /\ \A i \in kept :
                   /\ team_penalties[Rank(kept, i)].match_id = all_penalties[i].match_id
                   /\ team_penalties[Rank(kept, i)].raw_incident
                         = all_penalties[i].raw_incident

C10_Witness ==
    /\ pc = "collected"
    /\ team_penalties # <<>>
    /\ Len(team_penalties) < Len(all_penalties)
    /\ \E i \in DOMAIN all_penalties :
          /\ all_penalties[i].home_team # team_name
          /\ all_penalties[i].away_team # team_name

====
